---------------------------- MODULE Spec2Model ----------------------------
(***************************************************************************)
(* Model of CnCMods/AdressScouting/dllmain.cpp: the load entry point       *)
(* DllMain (which walks the export table of the host's primary module and  *)
(* reports it to the console and to function_address_log.txt) and the      *)
(* three proxy exports PrintAddress, Direct3D8EnableMaximizedModeShim and   *)
(* Direct3DCreate8.                                                        *)
(*                                                                         *)
(* A module image is a byte-addressed memory (offset from the base ->      *)
(* value of the field that starts there) together with SizeOfImage.  The   *)
(* walk reads it with raw address arithmetic exactly as the source does;   *)
(* a read that leaves the image is undefined behaviour and is modelled as  *)
(* a choice between an access fault and a garbage value.                   *)
(***************************************************************************)
EXTENDS Integers, Sequences, FiniteSets, TLC

(***************************************************************************)
(* Bounds of the model.                                                    *)
(***************************************************************************)
MaxNames == 2
NumThreads == 2
MaxCalls == 2

(***************************************************************************)
(* Constants of the PE layout the source relies on (winnt.h, 32-bit).      *)
(***************************************************************************)
IMAGE_DOS_SIGNATURE == 23117
IMAGE_NT_SIGNATURE == 17744
OffLfanew == 60
OffExportDataDir == 120
OffNumberOfNames == 24
OffAddressOfFunctions == 28
OffAddressOfNames == 32
OffAddressOfNameOrdinals == 36
SizeofDWORD == 4
SizeofWORD == 2

(***************************************************************************)
(* The images the host's primary module is drawn from.  Layout says where  *)
(* BuildImage puts each structure; FuncTable is the address table (indexed *)
(* by ordinal); an export list gives, per named export, its name and its   *)
(* ordinal.                                                                *)
(***************************************************************************)
Alpha == <<65, 108, 112, 104, 97>>
Beta == <<66, 101, 116, 97>>
NameSet == {Alpha, Beta}
FuncTable == <<256, 512>>
Bases == {4194304, 268435456}
Layout == [lfanew |-> 128, exportDir |-> 512, funcs |-> 576, names |-> 608,
           ords |-> 640, strings |-> 672, strSlot |-> 8, size |-> 4096,
           outside |-> 8192]
Corruptions == {"none", "badDos", "badNt", "badDosAndNt", "noExportDir",
                "lfanewOutside", "nameRvaOutside", "truncated"}
EnvCases == {"ok", "noFile", "noHandle", "noInfo"}
Garbage == {0, 7}
SDKVersions == {0, 220}

SeqsUpTo(S, n) == UNION {[1..k -> S] : k \in 0..n}

ExportLists ==
    {[names |-> ns, ords |-> os] :
        <<ns, os>> \in {p \in SeqsUpTo(NameSet, MaxNames)
                              \X SeqsUpTo(0..(Len(FuncTable) - 1), MaxNames) :
                          Len(p[1]) = Len(p[2])}}

CanonicalExports == [names |-> <<Alpha>>, ords |-> <<1>>]

\* The bytes of a well-formed image that exports ex.
WellFormedMem(ex) ==
    LET L == Layout
        N == Len(ex.names)
        ed == L.exportDir
        headers ==
            (0 :> IMAGE_DOS_SIGNATURE) @@ (OffLfanew :> L.lfanew)
            @@ (L.lfanew :> IMAGE_NT_SIGNATURE)
            @@ ((L.lfanew + OffExportDataDir) :> ed)
            @@ ((ed + OffNumberOfNames) :> N)
            @@ ((ed + OffAddressOfFunctions) :> L.funcs)
            @@ ((ed + OffAddressOfNames) :> L.names)
            @@ ((ed + OffAddressOfNameOrdinals) :> L.ords)
        funcs == [o \in {L.funcs + SizeofDWORD * k : k \in 0..(Len(FuncTable) - 1)}
                    |-> FuncTable[((o - L.funcs) \div SizeofDWORD) + 1]]
        names == [o \in {L.names + SizeofDWORD * k : k \in 0..(N - 1)}
                    |-> L.strings + L.strSlot * ((o - L.names) \div SizeofDWORD)]
        ords == [o \in {L.ords + SizeofWORD * k : k \in 0..(N - 1)}
                    |-> ex.ords[((o - L.ords) \div SizeofWORD) + 1]]
        strs == [o \in L.strings..(L.strings + L.strSlot * N - 1)
                    |-> LET i == ((o - L.strings) \div L.strSlot) + 1
                            j == ((o - L.strings) % L.strSlot) + 1
                        IN  IF j <= Len(ex.names[i]) THEN ex.names[i][j] ELSE 0]
    IN  headers @@ funcs @@ names @@ ords @@ strs

\* The image the loader mapped: a well-formed one, or one damaged in one place.
BuildImage(ex, corr) ==
    LET L == Layout
        m == WellFormedMem(ex)
        patch == CASE corr = "badDos" -> (0 :> 0)
                   [] corr = "badNt" -> (L.lfanew :> 0)
                   [] corr = "badDosAndNt" -> (0 :> 0) @@ (L.lfanew :> 0)
                   [] corr = "noExportDir" -> ((L.lfanew + OffExportDataDir) :> 0)
                   [] corr = "lfanewOutside" -> (OffLfanew :> L.outside)
                   [] corr = "nameRvaOutside" -> (L.names :> L.outside)
                   [] OTHER -> (0 :> IMAGE_DOS_SIGNATURE)
    IN  [mem |-> patch @@ m,
         size |-> IF corr = "truncated" THEN L.strings ELSE L.size]

\* What the process looks like when the component is loaded.
Environments ==
    {[exports |-> ex, corr |-> c, base |-> b, case |-> e, d3d8 |-> d] :
        ex \in ExportLists, c \in Corruptions, b \in Bases, e \in EnvCases,
        d \in BOOLEAN}

\* The export list matters only where the walk reaches the export tables, the
\* ordinals and the base only where it emits records of a well-formed image.
Inputs ==
    {e \in Environments :
        /\ (e.case # "ok" \/ e.corr \notin {"none", "nameRvaOutside", "truncated"})
              => e.exports = CanonicalExports
        /\ e.corr \in {"nameRvaOutside", "truncated"} =>
              /\ Len(e.exports.names) > 0
              /\ \A i \in 1..Len(e.exports.ords) : e.exports.ords[i] = 0
        /\ (e.case # "ok" \/ e.corr # "none") => e.base = 4194304}

(***************************************************************************)
(* Report lines.  printf's %s copies the bytes of the name up to the NUL,  *)
(* %p prints the pointer as eight hexadecimal digits.                      *)
(***************************************************************************)
Hex8(n) == [k \in 1..8 |-> (n \div (16 ^ (8 - k))) % 16]
Line(text, name, ptr) == [text |-> text, name |-> name, ptr |-> ptr]
Msg(text) == Line(text, <<>>, <<>>)

(***************************************************************************)
(* Raw reads.  The source never compares an offset with moduleSize, so a   *)
(* read of w bytes at off is performed whatever off is.  Inside the image  *)
(* it yields the stored value; outside it is undefined: orc says whether   *)
(* it faults and, when it does not, which value it yields.                 *)
(***************************************************************************)
Outside(img, off, w) == off + w > img.size

Peek(img, off, w, orc) ==
    IF Outside(img, off, w) THEN orc.val
    ELSE IF off \in DOMAIN img.mem THEN img.mem[off] ELSE 0

\* The bytes printf("%s") copies: from off up to the first NUL.
RECURSIVE CStrAt(_, _, _)
CStrAt(img, off, orc) ==
    IF Outside(img, off, 1)
    THEN IF orc.val = 0 THEN <<>> ELSE <<orc.val>>
    ELSE LET c == Peek(img, off, 1, orc)
         IN  IF c = 0 THEN <<>> ELSE <<c>> \o CStrAt(img, off + 1, orc)

\* Whether that scan leaves the image before it meets a NUL.
RECURSIVE CStrOutside(_, _)
CStrOutside(img, off) ==
    IF Outside(img, off, 1) THEN TRUE
    ELSE IF Peek(img, off, 1, [val |-> 0]) = 0 THEN FALSE
    ELSE CStrOutside(img, off + 1)

(***************************************************************************)
(* The export loop, lines 46-57.  tabs holds the three table addresses     *)
(* (relative to the base) read from the export directory.                  *)
(***************************************************************************)
FunctionOrdinal(img, tabs, i, orc) ==
    Peek(img, tabs.ords + SizeofWORD * i, SizeofWORD, orc)

\* Faulty variant: the address table indexed by the name index, not by the ordinal.
FunctionAddressRVA_ByNameIndex(img, tabs, i, orc) ==
    Peek(img, tabs.funcs + SizeofDWORD * i, SizeofDWORD, orc)

FunctionAddressRVA(img, tabs, i, orc) ==
    Peek(img, tabs.funcs + SizeofDWORD * FunctionOrdinal(img, tabs, i, orc),
         SizeofDWORD, orc)

FunctionNameRVA(img, tabs, i, orc) ==
    Peek(img, tabs.names + SizeofDWORD * i, SizeofDWORD, orc)

FunctionAddress(base, rva) == base + rva

\* Whether one pass of the loop body reads outside the image.
EntryOutside(img, tabs, i, orc) ==
    \/ Outside(img, tabs.names + SizeofDWORD * i, SizeofDWORD)
    \/ Outside(img, tabs.ords + SizeofWORD * i, SizeofWORD)
    \/ Outside(img, tabs.funcs + SizeofDWORD * FunctionOrdinal(img, tabs, i, orc),
               SizeofDWORD)
    \/ CStrOutside(img, FunctionNameRVA(img, tabs, i, orc))

ExportLine(img, base, tabs, i, orc) ==
    Line("Funktionsname: %s, Adresse: %p",
         CStrAt(img, FunctionNameRVA(img, tabs, i, orc), orc),
         Hex8(FunctionAddress(base, FunctionAddressRVA(img, tabs, i, orc))))

ExportRecord(img, base, tabs, i, orc) ==
    [name |-> CStrAt(img, FunctionNameRVA(img, tabs, i, orc), orc),
     addr |-> FunctionAddress(base, FunctionAddressRVA(img, tabs, i, orc))]

\* acc: the lines and records emitted so far, whether a read left the image,
\* and whether such a read faulted (which ends the run of the process).
RECURSIVE ExportLoop(_, _, _, _, _, _, _)
ExportLoop(img, base, tabs, i, n, orc, acc) ==
    IF i >= n THEN acc
    ELSE IF EntryOutside(img, tabs, i, orc) /\ orc.fault
    THEN [acc EXCEPT !.outside = TRUE, !.fault = TRUE]
    ELSE ExportLoop(img, base, tabs, i + 1, n, orc,
            [acc EXCEPT
               !.lines = @ \o <<ExportLine(img, base, tabs, i, orc)>>,
               !.records = @ \o <<ExportRecord(img, base, tabs, i, orc)>>,
               !.outside = @ \/ EntryOutside(img, tabs, i, orc)])
(***************************************************************************)
(* The walk of the primary module, lines 27-82: what it writes (each line  *)
(* goes to the file and to the console), the export records it emitted,    *)
(* how it ended, and what it read on the way.                              *)
(***************************************************************************)
WalkResult(lines, diag) ==
    [lines |-> lines, records |-> <<>>, diag |-> diag, outside |-> FALSE,
     fault |-> FALSE, ntRead |-> FALSE, exportsRead |-> FALSE]

BaseLine(base) == Line("[Spielmodul Basisadresse: %p]", <<>>, Hex8(base))

\* Faulty variant: the result of ImageDirectoryEntryToData is used unchecked.
ExportDirectoryAbsent_NeverChecked(ed) == FALSE

\* Line 45: ImageDirectoryEntryToData gave no export directory.
ExportDirectoryAbsent(ed) == ed = 0

\* Lines 41-62: the export directory, the module's headers being valid.
WalkExports(img, base, lfanew, orc, sofar) ==
    LET ddOff == lfanew + OffExportDataDir
        ed == Peek(img, ddOff, SizeofDWORD, orc)
        hdrOutside == Outside(img, ddOff, SizeofDWORD)
        start == [WalkResult(sofar, "none") EXCEPT !.ntRead = TRUE,
                                                      !.outside = hdrOutside]
    IN  IF hdrOutside /\ orc.fault
        THEN [start EXCEPT !.fault = TRUE, !.diag = "fault"]
        ELSE IF ExportDirectoryAbsent(ed)
        THEN [start EXCEPT
                !.lines = @ \o <<Msg("Error: No Export Directory found.")>>,
                !.diag = "NoExportDirectory"]
        ELSE LET dirOutside == Outside(img, ed + OffAddressOfNameOrdinals, SizeofDWORD)
                 tabs == [funcs |-> Peek(img, ed + OffAddressOfFunctions, SizeofDWORD, orc),
                          names |-> Peek(img, ed + OffAddressOfNames, SizeofDWORD, orc),
                          ords |-> Peek(img, ed + OffAddressOfNameOrdinals, SizeofDWORD, orc)]
                 n == Peek(img, ed + OffNumberOfNames, SizeofDWORD, orc)
                 begun == [start EXCEPT !.exportsRead = TRUE,
                                        !.outside = @ \/ dirOutside]
             IN  IF dirOutside /\ orc.fault
                 THEN [begun EXCEPT !.fault = TRUE, !.diag = "fault"]
                 ELSE LET done == ExportLoop(img, base, tabs, 0, n, orc, begun)
                      IN  IF done.fault THEN [done EXCEPT !.diag = "fault"]
                          ELSE [done EXCEPT !.diag = "records"]

\* Faulty variant: the NT signature is checked although the DOS magic did not match.
WalkHeaders_NoReturnAfterBadDos(img, base, orc, sofar) ==
    LET dosBad == Peek(img, 0, SizeofWORD, orc) # IMAGE_DOS_SIGNATURE
        told == IF dosBad THEN sofar \o <<Msg("Error: Invalid DOS Header.")>> ELSE sofar
        lfanew == Peek(img, OffLfanew, SizeofDWORD, orc)
    IN  IF Peek(img, lfanew, SizeofDWORD, orc) # IMAGE_NT_SIGNATURE
        THEN [WalkResult(told \o <<Msg("Error: Invalid NT Headers.")>>,
                         IF dosBad THEN "InvalidDosHeader" ELSE "InvalidNtHeader")
                EXCEPT !.ntRead = TRUE]
        ELSE [WalkExports(img, base, lfanew, [orc EXCEPT !.fault = FALSE], told)
                EXCEPT !.diag = IF dosBad THEN "InvalidDosHeader" ELSE @]

\* Lines 36-72: the headers.
WalkHeaders(img, base, orc, sofar) ==
    IF Peek(img, 0, SizeofWORD, orc) # IMAGE_DOS_SIGNATURE
    THEN WalkResult(sofar \o <<Msg("Error: Invalid DOS Header.")>>, "InvalidDosHeader")
    ELSE LET lfanew == Peek(img, OffLfanew, SizeofDWORD, orc)
             ntOutside == Outside(img, lfanew, SizeofDWORD)
         IN  IF ntOutside /\ orc.fault
             THEN [WalkResult(sofar, "fault") EXCEPT !.ntRead = TRUE,
                                                      !.outside = TRUE, !.fault = TRUE]
             ELSE IF Peek(img, lfanew, SizeofDWORD, orc) # IMAGE_NT_SIGNATURE
             THEN [WalkResult(sofar \o <<Msg("Error: Invalid NT Headers.")>>,
                              "InvalidNtHeader")
                     EXCEPT !.ntRead = TRUE, !.outside = ntOutside]
             ELSE LET r == WalkExports(img, base, lfanew, orc, sofar)
                  IN  [r EXCEPT !.outside = @ \/ ntOutside]

\* Lines 27-82.
WalkPrimary(env, orc) ==
    IF env.case = "noHandle"
    THEN WalkResult(<<Msg("Error: GetModuleHandle konnte Spielmodul nicht abrufen.")>>,
                    "NoModuleHandle")
    ELSE IF env.case = "noInfo"
    THEN WalkResult(<<BaseLine(env.base),
                      Msg("Error: GetModuleInformation fehlgeschlagen.")>>,
                    "NoModuleInformation")
    ELSE WalkHeaders(BuildImage(env.exports, env.corr), env.base, orc,
                     <<BaseLine(env.base)>>)

\* Lines 84-93: the secondary module, looked up by name.
SecondaryLine(env) ==
    IF env.d3d8
    THEN Line("[d3d8.dll Modul Basisadresse: %p]", <<>>, Hex8(env.base + Layout.outside))
    ELSE Msg("Fehler: GetModuleHandle konnte d3d8.dll Modul nicht abrufen.")

Banner == Msg("DLL geladen!")
Heading == Msg("--- Exportierte Funktionsadressen ---")
PrintAddressLine == Msg("PrintAddress() aufgerufen - (Platzhalterfunktion)")
(***************************************************************************)
(* State.                                                                  *)
(*   env        the process the component is loaded into                   *)
(*   loadState  "unloaded", "attached", "detached", "loadFailed" (DllMain  *)
(*              answered the loader's process-attach notification with     *)
(*              FALSE, so the loader unmapped the component) or "faulted"  *)
(*              (a read outside the image raised an access fault inside    *)
(*              DllMain)                                                   *)
(*   console    what printf wrote to CONOUT$, one element per call         *)
(*   file       the content of function_address_log.txt on disk            *)
(*   open       the threads that hold an open FILE* on the log file        *)
(*   pc, buf    per thread: its position in PrintAddress and the stdio     *)
(*              buffer of its FILE*                                        *)
(*   walk       the result of the walk of the primary module               *)
(*   walkRuns   how often lines 27-82 were entered                         *)
(*   paDone     PrintAddress calls that have returned                      *)
(*   last       the entry point that returned last, and its result         *)
(*   concurrent whether a PrintAddress call ever began while another       *)
(*              thread was inside PrintAddress                             *)
(***************************************************************************)
VARIABLES env, loadState, console, file, open, pc, buf, walk, walkRuns,
          paDone, last, concurrent

vars == <<env, loadState, console, file, open, pc, buf, walk, walkRuns,
          paDone, last, concurrent>>

Threads == 1..NumThreads
Oracles == [fault : BOOLEAN, val : Garbage]
NotRun == WalkResult(<<>>, "notRun")
Returned(fn, reason, sdk, ret) == [fn |-> fn, reason |-> reason, sdk |-> sdk, ret |-> ret]

Init ==
    /\ env \in Inputs
    /\ loadState = "unloaded"
    /\ console = <<>>
    /\ file = <<>>
    /\ open = {}
    /\ pc = [t \in Threads |-> "idle"]
    /\ buf = [t \in Threads |-> <<>>]
    /\ walk = NotRun
    /\ walkRuns = 0
    /\ paDone = 0
    /\ last = Returned("none", "none", 0, "none")
    /\ concurrent = FALSE

(***************************************************************************)
(* fopen_s.  It opens the file for this handle alone (the CRT's secure     *)
(* sharing mode denies every other open while a handle with write access   *)
(* exists), so it fails when the file cannot be opened at all or when      *)
(* another handle is open.  Mode "w" truncates, mode "a+" keeps the        *)
(* content and makes every write go to the end.                            *)
(***************************************************************************)
FopenSucceeds(e, holders) == e.case # "noFile" /\ holders = {}
ContentAfterOpen(content, mode) == IF mode = "w" THEN <<>> ELSE content
\* Faulty variant: PrintAddress opens the log as DllMain does.
PrintAddressMode_Truncating == "w"

PrintAddressMode == "a+"
DllMainMode == "w"

\* What DllMain gives back to the loader, line 103.
DllMainResult(reason, opened) == "TRUE"

(***************************************************************************)
(* DllMain, DLL_PROCESS_ATTACH: lines 13-97 and 103.                       *)
(***************************************************************************)
\* What the process-attach call leaves on the console (lines 19-92) and in
\* the file (lines 22-94) when the file opened and the walk wrote report.
\* Faulty variant: the line about the secondary module goes to the file alone.
ConsoleAfterAttach_SecondaryNotEchoed(before, report, second) ==
    before \o <<Banner, Heading>> \o report

ConsoleAfterAttach(before, report, second) ==
    before \o <<Banner, Heading>> \o report \o <<second>>

FileAfterAttach(before, report, second) ==
    ContentAfterOpen(before, DllMainMode) \o <<Heading>> \o report \o <<second>>

\* The loader keeps the component mapped only when process attach gave TRUE.
AfterAttach(result) == IF result = "TRUE" THEN "attached" ELSE "loadFailed"

ProcessAttach ==
    /\ loadState = "unloaded"
    /\ \E orc \in Oracles :
         IF FopenSucceeds(env, open)
         THEN LET r == WalkPrimary(env, orc)
              IN  /\ walk' = r
                  /\ walkRuns' = walkRuns + 1
                  /\ IF r.fault
                     THEN /\ loadState' = "faulted"
                          /\ console' = console \o <<Banner, Heading>> \o r.lines
                          /\ \E k \in 0..(Len(r.lines) + 1) :
                               file' = SubSeq(<<Heading>> \o r.lines, 1, k)
                          /\ last' = last
                     ELSE /\ loadState' =
                               AfterAttach(DllMainResult("DLL_PROCESS_ATTACH", TRUE))
                          /\ console' = ConsoleAfterAttach(console, r.lines,
                                                           SecondaryLine(env))
                          /\ file' = FileAfterAttach(file, r.lines, SecondaryLine(env))
                          /\ last' = Returned("DllMain", "DLL_PROCESS_ATTACH", 0,
                                              DllMainResult("DLL_PROCESS_ATTACH", TRUE))
         ELSE /\ loadState' = AfterAttach(DllMainResult("DLL_PROCESS_ATTACH", FALSE))
              /\ console' = console \o <<Banner>>
              /\ last' = Returned("DllMain", "DLL_PROCESS_ATTACH", 0,
                                  DllMainResult("DLL_PROCESS_ATTACH", FALSE))
              /\ UNCHANGED <<file, walk, walkRuns>>
    /\ UNCHANGED <<env, open, pc, buf, paDone, concurrent>>

(***************************************************************************)
(* DllMain, the other notifications: lines 98-103.                         *)
(***************************************************************************)
\* Faulty variant: the case labels fall through to the walk of DLL_PROCESS_ATTACH.
ThreadNotification_RunsTheWalk(reason) ==
    /\ loadState = "attached"
    /\ walkRuns' = walkRuns + 1
    /\ last' = Returned("DllMain", reason, 0, "TRUE")
    /\ UNCHANGED <<env, loadState, console, file, open, pc, buf, walk, paDone,
                   concurrent>>

ThreadNotification(reason) ==
    /\ loadState = "attached"
    /\ last' = Returned("DllMain", reason, 0, DllMainResult(reason, FALSE))
    /\ UNCHANGED <<env, loadState, console, file, open, pc, buf, walk, walkRuns,
                   paDone, concurrent>>

ProcessDetach ==
    /\ loadState = "attached"
    /\ \A t \in Threads : pc[t] = "idle"
    /\ loadState' = "detached"
    /\ last' = Returned("DllMain", "DLL_PROCESS_DETACH", 0,
                        DllMainResult("DLL_PROCESS_DETACH", FALSE))
    /\ UNCHANGED <<env, console, file, open, pc, buf, walk, walkRuns, paDone, concurrent>>

(***************************************************************************)
(* PrintAddress, lines 106-113, one step per library call: any thread of   *)
(* the host may be anywhere in it.                                         *)
(***************************************************************************)
Started == paDone + Cardinality({t \in Threads : pc[t] # "idle"})

\* Line 108, and line 109 when fp is null.
PrintAddress_fopen(t) ==
    /\ loadState = "attached"
    /\ pc[t] = "idle"
    /\ Started < MaxCalls
    /\ IF FopenSucceeds(env, open)
       THEN /\ open' = open \cup {t}
            /\ file' = ContentAfterOpen(file, PrintAddressMode)
            /\ pc' = [pc EXCEPT ![t] = "opened"]
            /\ UNCHANGED <<paDone, last>>
       ELSE /\ paDone' = paDone + 1
            /\ last' = Returned("PrintAddress", "none", 0, "void")
            /\ UNCHANGED <<open, file, pc>>
    /\ concurrent' = (concurrent \/ \E u \in Threads \ {t} : pc[u] # "idle")
    /\ UNCHANGED <<env, loadState, console, buf, walk, walkRuns>>

\* Line 110: fprintf fills the buffer of the FILE*.
PrintAddress_fprintf(t) ==
    /\ pc[t] = "opened"
    /\ buf' = [buf EXCEPT ![t] = @ \o <<PrintAddressLine>>]
    /\ pc' = [pc EXCEPT ![t] = "written"]
    /\ UNCHANGED <<env, loadState, console, file, open, walk, walkRuns, paDone, last,
                   concurrent>>

\* What fclose leaves of the handles: the closed one is gone.
HandlesAfterClose(holders, t) == holders \ {t}

\* Line 111: fclose writes the buffer at the end of the file and returns.
PrintAddress_fclose(t) ==
    /\ pc[t] = "written"
    /\ file' = file \o buf[t]
    /\ buf' = [buf EXCEPT ![t] = <<>>]
    /\ open' = HandlesAfterClose(open, t)
    /\ pc' = [pc EXCEPT ![t] = "idle"]
    /\ paDone' = paDone + 1
    /\ last' = Returned("PrintAddress", "none", 0, "void")
    /\ UNCHANGED <<env, loadState, console, walk, walkRuns, concurrent>>

(***************************************************************************)
(* The two stubs, lines 115 and 116.                                       *)
(***************************************************************************)
Direct3DCreate8Result(SDKVersion) == "nullptr"

\* Faulty variant: the stub logs its call the way PrintAddress does.
Direct3DCreate8Log_Appends(content, SDKVersion) ==
    content \o <<Msg("Direct3DCreate8() aufgerufen")>>

\* The log after a call of Direct3DCreate8.
Direct3DCreate8Log(content, SDKVersion) == content

Direct3D8EnableMaximizedModeShim(t) ==
    /\ loadState = "attached"
    /\ pc[t] = "idle"
    /\ last' = Returned("Direct3D8EnableMaximizedModeShim", "none", 0, "void")
    /\ UNCHANGED <<env, loadState, console, file, open, pc, buf, walk, walkRuns,
                   paDone, concurrent>>

Direct3DCreate8(t, SDKVersion) ==
    /\ loadState = "attached"
    /\ pc[t] = "idle"
    /\ last' = Returned("Direct3DCreate8", "none", SDKVersion,
                        Direct3DCreate8Result(SDKVersion))
    /\ file' = Direct3DCreate8Log(file, SDKVersion)
    /\ UNCHANGED <<env, loadState, console, open, pc, buf, walk, walkRuns, paDone, concurrent>>

Next ==
    \/ ProcessAttach
    \/ \E reason \in {"DLL_THREAD_ATTACH", "DLL_THREAD_DETACH"} :
         ThreadNotification(reason)
    \/ ProcessDetach
    \/ \E t \in Threads : PrintAddress_fopen(t)
    \/ \E t \in Threads : PrintAddress_fprintf(t)
    \/ \E t \in Threads : PrintAddress_fclose(t)
    \/ \E t \in Threads : Direct3D8EnableMaximizedModeShim(t)
    \/ \E t \in Threads, v \in SDKVersions : Direct3DCreate8(t, v)

Spec == Init /\ [][Next]_vars
(***************************************************************************)
(* What the claims are stated in.  Everything below is about the process   *)
(* env describes; none of it is computed by the walk.                      *)
(***************************************************************************)
Loaded == loadState \in {"attached", "detached"}
AllIdle == \A t \in Threads : pc[t] = "idle"
ExportText == "Funktionsname: %s, Adresse: %p"
NoExportDirectoryText == "Error: No Export Directory found."
FatalTexts == [NoModuleHandle |-> "Error: GetModuleHandle konnte Spielmodul nicht abrufen.",
               NoModuleInformation |-> "Error: GetModuleInformation fehlgeschlagen.",
               InvalidDosHeader |-> "Error: Invalid DOS Header.",
               InvalidNtHeader |-> "Error: Invalid NT Headers."]
DiagnosticTexts == {FatalTexts[k] : k \in DOMAIN FatalTexts} \cup {NoExportDirectoryText}
IsExportLine(l) == l.text = ExportText
IsDiagnostic(l) == l.text \in DiagnosticTexts
IsPrintAddressLine(l) == l = PrintAddressLine

\* The walk of the primary module ran to its end on the module's image.
WalkedImage == Loaded /\ walkRuns = 1 /\ env.case = "ok"

\* The export records of a well-formed image, from the export list it was
\* built from: the address table entry of the i-th name's ordinal.
ExpectedRecords(e) ==
    [i \in 1..Len(e.exports.names) |->
        [name |-> e.exports.names[i],
         addr |-> e.base + FuncTable[e.exports.ords[i] + 1]]]

ExpectedExportLines(e) ==
    [i \in 1..Len(e.exports.names) |->
        Line(ExportText, ExpectedRecords(e)[i].name, Hex8(ExpectedRecords(e)[i].addr))]

\* The first step that fails, in the order resolve -> DOS -> NT.
FirstFailure(e) ==
    CASE e.case = "noHandle" -> "NoModuleHandle"
      [] e.case = "noInfo" -> "NoModuleInformation"
      [] e.case = "ok" /\ e.corr \in {"badDos", "badDosAndNt"} -> "InvalidDosHeader"
      [] e.case = "ok" /\ e.corr = "badNt" -> "InvalidNtHeader"
      [] OTHER -> "none"

(***************************************************************************)
(* C1.  For a well-formed image with N named exports the walk emits        *)
(* exactly N export records, in name-table order, record i having the      *)
(* non-empty i-th name and the address base + address_table[ordinal of i], *)
(* and writes them in that order to the file and to the console; the       *)
(* module exporting Alpha -> 0x100 and Beta -> 0x200 at base 0x00400000    *)
(* yields (Alpha, 0x00400100), (Beta, 0x00400200).                         *)
(***************************************************************************)
C1_WalkEmitsEveryExportInTableOrder ==
    (WalkedImage /\ env.corr = "none") =>
        /\ walk.diag = "records"
        /\ walk.records = ExpectedRecords(env)
        /\ \A i \in 1..Len(walk.records) : Len(walk.records[i].name) > 0
        /\ SelectSeq(file, IsExportLine) = ExpectedExportLines(env)
        /\ SelectSeq(console, IsExportLine) = ExpectedExportLines(env)
        /\ (env.exports = [names |-> <<Alpha, Beta>>, ords |-> <<0, 1>>]
              /\ env.base = 4194304)
             => /\ walk.records = <<[name |-> Alpha, addr |-> 4194560],
                                    [name |-> Beta, addr |-> 4194816]>>
                /\ SelectSeq(file, IsExportLine) =
                     <<Line(ExportText, Alpha, <<0, 0, 4, 0, 0, 1, 0, 0>>),
                       Line(ExportText, Beta, <<0, 0, 4, 0, 0, 2, 0, 0>>)>>

C1_Witness ==
    /\ WalkedImage /\ env.corr = "none"
    /\ env.exports = [names |-> <<Beta, Alpha>>, ords |-> <<1, 0>>]
    /\ Len(walk.records) = 2

(***************************************************************************)
(* C2.  When the walk meets a fatal condition (the module handle or the    *)
(* module information cannot be resolved, the DOS magic or the NT          *)
(* signature does not match) it emits exactly one diagnostic, the one of   *)
(* the first failed step in the order resolve -> DOS -> NT, and no export  *)
(* record; after a DOS magic mismatch neither the NT header nor the export *)
(* directory has been read.                                                *)
(***************************************************************************)
C2_FatalConditionGivesOneDiagnostic ==
    /\ (Loaded /\ walk.diag \in DOMAIN FatalTexts) =>
          /\ walk.records = <<>>
          /\ SelectSeq(file, IsExportLine) = <<>>
          /\ SelectSeq(file, IsDiagnostic) = <<Msg(FatalTexts[walk.diag])>>
          /\ SelectSeq(console, IsDiagnostic) = <<Msg(FatalTexts[walk.diag])>>
    /\ (Loaded /\ walkRuns = 1 /\ FirstFailure(env) # "none") =>
        /\ walk.diag = FirstFailure(env)
        /\ walk.records = <<>>
        /\ SelectSeq(file, IsExportLine) = <<>>
        /\ SelectSeq(console, IsExportLine) = <<>>
        /\ SelectSeq(file, IsDiagnostic) = <<Msg(FatalTexts[FirstFailure(env)])>>
        /\ SelectSeq(console, IsDiagnostic) = <<Msg(FatalTexts[FirstFailure(env)])>>
        /\ FirstFailure(env) # "InvalidNtHeader" => ~walk.ntRead
        /\ ~walk.exportsRead

C2_Witness ==
    /\ Loaded /\ walkRuns = 1
    /\ env.case = "ok" /\ env.corr = "badDosAndNt"
    /\ walk.diag = "InvalidDosHeader"

(***************************************************************************)
(* C3.  The walk never reads past base + image size: an export entry whose *)
(* name RVA or table lookup leads outside the image is skipped with a      *)
(* per-entry diagnostic, and the other entries are still emitted.          *)
(***************************************************************************)
C3_NoReadOutsideTheImage ==
    walk.exportsRead => (~walk.outside /\ loadState # "faulted")
(***************************************************************************)
(* C4.  N concurrent callers of PrintAddress leave exactly N complete      *)
(* PrintAddress lines in the log, in any interleaving of their steps.      *)
(***************************************************************************)
C4_EveryCallLeavesItsLine ==
    (Loaded /\ env.case # "noFile" /\ AllIdle) =>
        Len(SelectSeq(file, IsPrintAddressLine)) = paDone

(***************************************************************************)
(* C5, as claimed.  Within one load the walk of the primary module runs    *)
(* exactly once, also when the report file cannot be opened.               *)
(***************************************************************************)
C5_WalkRunsExactlyOncePerLoad == Loaded => walkRuns = 1

(***************************************************************************)
(* C5, amended.  Within one load the walk of the primary module runs at    *)
(* most once, on the process-attach notification and on no other: once     *)
(* when the report file opens, never when it cannot be opened.             *)
(***************************************************************************)
C5_WalkRunsOnceIffReportOpens ==
    /\ walkRuns <= 1
    /\ loadState = "unloaded" => walkRuns = 0
    /\ loadState # "unloaded" => walkRuns = (IF env.case = "noFile" THEN 0 ELSE 1)

C5_Witness ==
    /\ loadState = "detached"
    /\ walkRuns = 1
    /\ walk.diag = "records"

(***************************************************************************)
(* C6, as claimed.  Between operations the lines written to the console    *)
(* equal the lines written to the file.                                    *)
(***************************************************************************)
C6_ConsoleEqualsFile == (Loaded /\ AllIdle) => console = file

(***************************************************************************)
(* C6, amended.  After a load that returned, the console holds the line    *)
(* "DLL geladen!" followed by exactly the lines the load wrote to the      *)
(* file, in the same order (by nothing when the file could not be opened); *)
(* the lines of PrintAddress go to the file alone.                         *)
(***************************************************************************)
NotPrintAddressLine(l) == ~IsPrintAddressLine(l)

C6_ConsoleIsBannerThenLoadReport ==
    Loaded =>
        IF env.case = "noFile"
        THEN console = <<Banner>> /\ file = <<>>
        ELSE /\ console = <<Banner>> \o SelectSeq(file, NotPrintAddressLine)
             /\ SelectSeq(console, IsPrintAddressLine) = <<>>

C6_Witness ==
    /\ Loaded /\ env.case = "ok" /\ AllIdle
    /\ Len(walk.records) = 2
    /\ Len(SelectSeq(file, IsPrintAddressLine)) = 1

(***************************************************************************)
(* C7.  No outcome of the component reaches the host as a failure: every   *)
(* call of DllMain returns, and returns TRUE, for every notification       *)
(* reason and every outcome of the walk; the component then stays loaded,  *)
(* and every proxy export can be called and every call of one runs to its  *)
(* return.                                                                 *)
(***************************************************************************)
C7_NoFailureReachesTheHost ==
    /\ last.fn = "DllMain" => last.ret = "TRUE"
    /\ loadState # "unloaded" => Loaded
    /\ loadState = "attached" =>
         \A t \in Threads :
            /\ pc[t] = "idle" =>
                 /\ ENABLED Direct3D8EnableMaximizedModeShim(t)
                 /\ \A v \in SDKVersions : ENABLED Direct3DCreate8(t, v)
                 /\ Started < MaxCalls => ENABLED PrintAddress_fopen(t)
            /\ pc[t] = "opened" => ENABLED PrintAddress_fprintf(t)
            /\ pc[t] = "written" => ENABLED PrintAddress_fclose(t)

(***************************************************************************)
(* C8, as claimed.  A module without export directory, and likewise every  *)
(* module with zero exports, ends with the NoExportDirectory diagnostic.   *)
(***************************************************************************)
ZeroExports(e) ==
    \/ e.corr = "noExportDir"
    \/ e.corr = "none" /\ Len(e.exports.names) = 0

C8_ZeroExportsGiveNoExportDirectory ==
    (WalkedImage /\ ZeroExports(env)) =>
        /\ walk.diag = "NoExportDirectory"
        /\ walk.records = <<>>
        /\ SelectSeq(file, IsDiagnostic) = <<Msg(NoExportDirectoryText)>>

(***************************************************************************)
(* C8, amended.  For a module without export directory the walk emits the  *)
(* NoExportDirectory diagnostic, no fatal diagnostic and no export record, *)
(* and the load succeeds; a module whose export directory is present and   *)
(* names zero exports ends with no export record and no diagnostic at all. *)
(***************************************************************************)
C8_NoExportDirectoryIsNotFatal ==
    /\ (loadState # "unloaded" /\ walkRuns = 1 /\ env.case = "ok"
          /\ env.corr = "noExportDir") =>
            /\ Loaded
            /\ walk.diag = "NoExportDirectory"
            /\ walk.records = <<>>
            /\ SelectSeq(file, IsExportLine) = <<>>
            /\ SelectSeq(file, IsDiagnostic) = <<Msg(NoExportDirectoryText)>>
            /\ SelectSeq(console, IsDiagnostic) = <<Msg(NoExportDirectoryText)>>
    /\ (loadState # "unloaded" /\ walkRuns = 1 /\ env.case = "ok"
          /\ env.corr = "none" /\ Len(env.exports.names) = 0) =>
            /\ Loaded
            /\ walk.diag = "records"
            /\ walk.records = <<>>
            /\ SelectSeq(file, IsExportLine) = <<>>
            /\ SelectSeq(file, IsDiagnostic) = <<>>

C8_Witness ==
    /\ WalkedImage
    /\ env.corr = "noExportDir"
    /\ walk.diag = "NoExportDirectory"
    /\ last = Returned("DllMain", "DLL_PROCESS_ATTACH", 0, "TRUE")

(***************************************************************************)
(* C9.  A call of Direct3DCreate8, whatever its SDKVersion, returns null,  *)
(* and it and a call of Direct3D8EnableMaximizedModeShim change nothing    *)
(* but the record of the last return: the log file, the console, the open  *)
(* handles and every thread's position stay as they were, so that later    *)
(* calls behave as if the call had not happened.                           *)
(***************************************************************************)
C9_StubsReturnNullAndChangeNothing ==
    [][(last' # last
          /\ last'.fn \in {"Direct3DCreate8", "Direct3D8EnableMaximizedModeShim"}) =>
         /\ last'.fn = "Direct3DCreate8" => last'.ret = "nullptr"
         /\ last'.fn = "Direct3D8EnableMaximizedModeShim" => last'.ret = "void"
         /\ UNCHANGED <<env, loadState, console, file, open, pc, buf, walk,
                        walkRuns, paDone, concurrent>>]_vars

C9_Witness ==
    /\ last = Returned("Direct3DCreate8", "none", 0, "nullptr")
    /\ paDone = 1
    /\ \E t \in Threads : pc[t] = "written"

(***************************************************************************)
(* C10, as claimed.  In a sequential run after load, after k calls of      *)
(* PrintAddress the file is what the load wrote followed by exactly k      *)
(* PrintAddress lines, and no handle is open.                              *)
(***************************************************************************)
LoadReport ==
    IF env.case = "noFile" THEN <<>>
    ELSE <<Heading>> \o walk.lines \o <<SecondaryLine(env)>>

PrintAddressLines(k) == [i \in 1..k |-> PrintAddressLine]

SecondaryFoundText == "[d3d8.dll Modul Basisadresse: %p]"
SecondaryNotFoundText == "Fehler: GetModuleHandle konnte d3d8.dll Modul nicht abrufen."
IsSecondaryLine(l) == l.text \in {SecondaryFoundText, SecondaryNotFoundText}

\* The one line the process env describes calls for.
ExpectedSecondaryLine(e) ==
    IF e.d3d8
    THEN Line(SecondaryFoundText, <<>>, Hex8(e.base + Layout.outside))
    ELSE Msg(SecondaryNotFoundText)

\* out holds exactly one line about the secondary module, the expected one,
\* as the last of the lines the load wrote, and no export line but the
\* primary module's.
SecondaryReportedOnce(out) ==
    LET written == SelectSeq(out, NotPrintAddressLine)
    IN  /\ SelectSeq(out, IsSecondaryLine) = <<ExpectedSecondaryLine(env)>>
        /\ written # <<>>
        /\ written[Len(written)] = ExpectedSecondaryLine(env)
        /\ Len(SelectSeq(out, IsExportLine)) = Len(walk.records)

C11_SecondaryModuleReportedOnEveryLoad ==
    (loadState # "unloaded" /\ env.case # "noFile") =>
        /\ SecondaryReportedOnce(file)
        /\ SecondaryReportedOnce(console)

(***************************************************************************)
(* C11, on the loads that return.  After every load in which the report    *)
(* file opened and DllMain returned (the walk ended with records, with no  *)
(* export directory or with a fatal diagnostic), the file and the console  *)
(* hold exactly one line about d3d8.dll, the expected one, after all       *)
(* output about the primary module.                                        *)
(***************************************************************************)
C11_SecondaryModuleReportedWhenDllMainReturns ==
    (Loaded /\ env.case # "noFile") =>
        /\ SecondaryReportedOnce(file)
        /\ SecondaryReportedOnce(console)
        /\ walk.diag \in {"records", "NoExportDirectory"} \cup DOMAIN FatalTexts

C11_ReturnedLoadWitness ==
    /\ Loaded /\ env.case = "noInfo" /\ ~env.d3d8
    /\ walk.diag = "NoModuleInformation"
=============================================================================
